---------------------------- MODULE Spec2Model ----------------------------
(***************************************************************************)
(* A model of src/main.ts of dependency-review-action: the run() entry     *)
(* point, its vulnerability and license report blocks, the scanned         *)
(* dependency printer and the catch/finally error handling.                *)
(*                                                                         *)
(* run() is one async function.  The model has one action per segment of   *)
(* run() between two suspension points (await), plus one action per way    *)
(* an awaited collaborator can settle (return / throw).  Every call to     *)
(* @actions/core, ./summary and ./comment-pr is appended to `log`, in      *)
(* program order.                                                          *)
(*                                                                         *)
(* The filters (../src/filter), the license resolver (./licenses) and the  *)
(* change-set retrieval (./dependency-graph) are imported by main.ts but   *)
(* their text is not part of the source tree at hand; they are modelled    *)
(* from the written specification (sections 4.1-4.5 and 6).                *)
(***************************************************************************)
EXTENDS Naturals, Sequences, FiniteSets

VARIABLES
    pc,                    \* position of run()
    config,                \* const config (line 22)
    changes,               \* const changes (line 25): [absent, items]
    minSeverity,           \* let minSeverity (line 39)
    filteredChanges,       \* const filteredChanges (line 45)
    vulnerableChanges,     \* const vulnerableChanges (line 50)
    invalidLicenseChanges, \* const invalidLicenseChanges (line 60)
    summaryArgs,           \* what summary.addSummaryToSummary was handed (line 68)
    error,                 \* the value bound by catch (line 92)
    unhandled,             \* a rejected promise nobody awaits is pending
    log                    \* calls made so far, in order

vars == <<pc, config, changes, minSeverity, filteredChanges, vulnerableChanges,
          invalidLicenseChanges, summaryArgs, error, unhandled, log>>

---------------------------------------------------------------------------
(* Bounds *)

\* longest change set compare() returns
MaxChanges == 2

---------------------------------------------------------------------------
(* Data model: Change, Vulnerability, configuration *)

NoLicense == "<absent>"

Severities == {"low", "moderate", "high", "critical"}

\* Severity ordinal, low < moderate < high < critical
SeverityRank(s) ==
    CASE s = "low" -> 1
      [] s = "moderate" -> 2
      [] s = "high" -> 3
      [] s = "critical" -> 4

Vuln(id, sev) == [advisory_id |-> id, severity |-> sev]

Change(type, scope, license, vulns) ==
    [change_type |-> type, scope |-> scope, license |-> license,
     vulnerabilities |-> vulns]

\* The changes compare() draws from.  "updated" is a change_type outside
\* {added, removed}; "MIT AND (" is a license string that is no SPDX
\* identifier.
ChangeUniverse ==
    { Change("added", "runtime", "MIT",
             <<Vuln("GHSA-1", "critical"), Vuln("GHSA-2", "low")>>),
      Change("added", "development", "GPL-3.0", <<Vuln("GHSA-2", "low")>>),
      Change("removed", "runtime", NoLicense, <<Vuln("GHSA-3", "high")>>),
      Change("added", "runtime", "MIT AND (", <<>>),
      Change("updated", "runtime", "MIT", <<>>) }

RECURSIVE SeqsUpTo(_, _)
SeqsUpTo(S, n) ==
    IF n = 0 THEN { <<>> }
    ELSE LET shorter == SeqsUpTo(S, n - 1)
         IN  shorter \cup { Append(s, x) : s \in shorter, x \in S }

\* What dependencyGraph.compare can resolve to: the "no changes" signal or
\* an ordered sequence of Change, possibly empty.
CompareResults ==
    { [absent |-> TRUE, items |-> <<>>] } \cup
    { [absent |-> FALSE, items |-> s] : s \in SeqsUpTo(ChangeUniverse, MaxChanges) }

\* What readConfig can resolve to; allow_licenses and deny_licenses are
\* not both set
Configs ==
    { c \in
    [ fail_on_severity : {"none"} \cup Severities,
      fail_on_scopes : { {}, {"runtime"} },
      allow_ghsas : { {}, {"GHSA-1"} },
      allow_licenses : { {}, {"MIT"} },
      deny_licenses : { {}, {"GPL-3.0"} },
      vulnerability_check : BOOLEAN,
      license_check : BOOLEAN,
      comment_summary_in_pr : BOOLEAN ] :
      c.allow_licenses = {} \/ c.deny_licenses = {} }

\* value of `config` before readConfig has resolved
NoConfig ==
    [ fail_on_severity |-> "none", fail_on_scopes |-> {}, allow_ghsas |-> {},
      allow_licenses |-> {}, deny_licenses |-> {},
      vulnerability_check |-> FALSE, license_check |-> FALSE,
      comment_summary_in_pr |-> FALSE ]

NoBuckets == [forbidden |-> <<>>, unresolved |-> <<>>, unlicensed |-> <<>>]

\* Thrown values: RequestError (with its status), another Error, a value
\* that is no Error.
Thrown(isErr, isReq, status, msg) ==
    [isError |-> isErr, isRequestError |-> isReq, status |-> status,
     message |-> msg]

NoError == Thrown(FALSE, FALSE, 0, "<none>")

Errors ==
    { Thrown(TRUE, TRUE, 404, "Not Found"),
      Thrown(TRUE, TRUE, 403, "Forbidden"),
      Thrown(TRUE, TRUE, 500, "Server Error"),
      Thrown(TRUE, FALSE, 404, "lookup failed"),
      Thrown(FALSE, FALSE, 0, "a string") }

\* what commentPr is let to throw: a RequestError the catch block knows
\* and an Error that only looks like one
CommentErrors ==
    { Thrown(TRUE, TRUE, 403, "Forbidden"),
      Thrown(TRUE, FALSE, 404, "lookup failed") }

---------------------------------------------------------------------------
(* Collaborators imported by main.ts (lines 7-15) *)

\* filterChangesByScopes: keep the changes whose scope is evaluated; an
\* empty scope set keeps them all.
filterChangesByScopes(scopes, cs) ==
    IF scopes = {} THEN cs
    ELSE LET InScope(c) == c.scope \in scopes IN SelectSeq(cs, InScope)

\* filterAllowedAdvisories: drop the allowlisted vulnerabilities of every
\* change; the change itself stays, possibly with none left.
filterAllowedAdvisories(ghsas, cs) ==
    LET NotAllowed(v) == v.advisory_id \notin ghsas
    IN  [i \in 1..Len(cs) |->
            [cs[i] EXCEPT !.vulnerabilities = SelectSeq(@, NotAllowed)]]

\* filterChangesBySeverity: keep the changes with a vulnerability at or
\* above the threshold.
filterChangesBySeverity(severity, cs) ==
    LET AtLeast(c) ==
            \E i \in 1..Len(c.vulnerabilities) :
                SeverityRank(c.vulnerabilities[i].severity) >= SeverityRank(severity)
    IN  SelectSeq(cs, AtLeast)

\* a license string the resolver can evaluate as one SPDX identifier
IsSpdxIdentifier(l) == l \in {"MIT", "GPL-3.0"}

\* getInvalidLicenseChanges: unlicensed (no license), unresolved (a license
\* that is no SPDX identifier), forbidden (deny list first, else allow list).
getInvalidLicenseChanges(cs, policy) ==
    LET Unlicensed(c) == c.license = NoLicense
        Unresolved(c) == c.license # NoLicense /\ ~IsSpdxIdentifier(c.license)
        Forbidden(c) ==
            /\ c.license # NoLicense
            /\ IsSpdxIdentifier(c.license)
            /\ IF policy.deny # {} THEN c.license \in policy.deny
               ELSE IF policy.allow # {} THEN c.license \notin policy.allow
               ELSE FALSE
    IN  [forbidden |-> SelectSeq(cs, Forbidden),
         unresolved |-> SelectSeq(cs, Unresolved),
         unlicensed |-> SelectSeq(cs, Unlicensed)]

---------------------------------------------------------------------------
(* run(), lines 36-66: the classification *)

\* const failOnVulnerability (line 38)
FailOnVulnerability(cfg) == cfg.fail_on_severity # "none"

\* MinSeverity with another default threshold when fail_on_severity is none
MinSeverityDefaultHigh(cfg) ==
    IF cfg.fail_on_severity # "none" THEN cfg.fail_on_severity ELSE "high"

\* let minSeverity (lines 39-42)
MinSeverity(cfg) ==
    IF cfg.fail_on_severity # "none" THEN cfg.fail_on_severity ELSE "low"

\* const scopedChanges (line 44)
ScopedChanges(cfg, cs) == filterChangesByScopes(cfg.fail_on_scopes, cs)

\* const filteredChanges (lines 45-48)
FilteredChanges(cfg, cs) ==
    filterAllowedAdvisories(cfg.allow_ghsas, ScopedChanges(cfg, cs))

\* AddedWithVulnerabilities without the test of change_type
AnyWithVulnerabilities(change) ==
    Len(change.vulnerabilities) > 0

\* the predicate of .filter (lines 54-57)
AddedWithVulnerabilities(change) ==
    /\ change.change_type = "added"
    /\ Len(change.vulnerabilities) > 0

\* VulnerableChanges with the severity filter run on scopedChanges, before
\* the advisory allowlist instead of after it
VulnerableChangesSeverityFirst(cfg, cs) ==
    SelectSeq(filterAllowedAdvisories(cfg.allow_ghsas,
                  filterChangesBySeverity(MinSeverity(cfg), ScopedChanges(cfg, cs))),
              AddedWithVulnerabilities)

\* const vulnerableChanges (lines 50-58)
VulnerableChanges(cfg, cs) ==
    SelectSeq(filterChangesBySeverity(MinSeverity(cfg), FilteredChanges(cfg, cs)),
              AddedWithVulnerabilities)

\* LicenseInput handing the resolver the unfiltered `changes`
LicenseInputUnfiltered(cfg, cs) == cs

\* first argument of getInvalidLicenseChanges (line 61)
LicenseInput(cfg, cs) == FilteredChanges(cfg, cs)

\* const invalidLicenseChanges (lines 60-66)
InvalidLicenseChanges(cfg, cs) ==
    getInvalidLicenseChanges(LicenseInput(cfg, cs),
                             [allow |-> cfg.allow_licenses,
                              deny |-> cfg.deny_licenses])

---------------------------------------------------------------------------
(* The calls the log records.  core.setFailed and core.warning are logged
   with their message; an Error's own message is logged behind the prefix
   "setFailed:". *)

FailedVulnerable == "setFailed:Dependency review detected vulnerable packages."
WarnedVulnerable == "warning:Dependency review detected vulnerable packages."
FailedForbidden == "setFailed:Dependency review detected incompatible licenses."
WarnedForbidden == "warning:Dependency review detected incompatible licenses."
FailedUnresolved == "setFailed:Dependency review could not detect the validity of all licenses."
WarnedUnresolved == "warning:The validity of the licenses could not be determined"
Failed404 == "setFailed:Dependency review could not obtain dependency data"
Failed403 == "setFailed:Dependency review is not supported on this repository"
FailedFatal == "setFailed:Unexpected fatal error"
FailedWith(message) == "setFailed:" \o message

---------------------------------------------------------------------------
(* The report blocks, as the calls they make *)

\* printVulnerabilitiesBlock (lines 113-140)
printVulnerabilitiesBlock(addedChanges, failOnVulnerability) ==
    <<"group:Vulnerabilities">> \o
    ( IF Len(addedChanges) > 0
      THEN IF failOnVulnerability
           THEN <<FailedVulnerable>>
           ELSE <<WarnedVulnerable>>
      ELSE <<"info:did not detect any vulnerable packages">> )

\* printLicensesBlock (lines 155-181)
printLicensesBlock(ilc, failOnVulnerability) ==
    <<"group:Licenses">> \o
    ( IF Len(ilc.forbidden) > 0
      THEN IF failOnVulnerability
           THEN <<FailedForbidden>>
           ELSE <<WarnedForbidden>>
      ELSE <<>> ) \o
    ( IF Len(ilc.unresolved) > 0
      THEN <<WarnedUnresolved,
             FailedUnresolved>>
      ELSE <<>> ) \o
    ( IF Len(ilc.unlicensed) > 0
      THEN <<"info:We could not detect a license">>
      ELSE <<>> )

\* renderScannedDependency throws (lines 219-223)
UnexpectedChangeType(change) ==
    change.change_type # "added" /\ change.change_type # "removed"

\* printScannedDependencies (lines 242-254): the callback handed to
\* core.group throws at the first change renderScannedDependency rejects.
\* The callback is async and core.group is not awaited, so the throw
\* rejects a promise that run() never sees.
ScannedDependenciesThrows(cs) ==
    \E i \in 1..Len(cs) : UnexpectedChangeType(cs[i])

\* VulnerabilityCheck without the test of config.vulnerability_check
VulnerabilityCheckAlways(cfg, vc) ==
    <<"summary.addChangeVulnerabilitiesToSummary">> \o
    printVulnerabilitiesBlock(vc, FailOnVulnerability(cfg))

\* the vulnerability check of run() (lines 74-81)
VulnerabilityCheck(cfg, vc) ==
    IF cfg.vulnerability_check
    THEN <<"summary.addChangeVulnerabilitiesToSummary">> \o
         printVulnerabilitiesBlock(vc, FailOnVulnerability(cfg))
    ELSE <<>>

\* the license check of run() (lines 82-85)
LicenseCheck(cfg, ilc) ==
    IF cfg.license_check
    THEN <<"summary.addLicensesToSummary">> \o
         printLicensesBlock(ilc, FailOnVulnerability(cfg))
    ELSE <<>>

\* ShouldComment without the test of config.comment_summary_in_pr
ShouldCommentAlways(cfg) == TRUE

\* the condition of line 89
ShouldComment(cfg) == cfg.comment_summary_in_pr

\* CatchMessage testing the status alone, without instanceof RequestError
CatchMessageByStatus(e) ==
    IF e.status = 404 THEN Failed404
    ELSE IF e.status = 403 THEN Failed403
    ELSE IF e.isError THEN FailedWith(e.message)
    ELSE FailedFatal

\* the message of core.setFailed in the catch block (lines 93-107)
CatchMessage(e) ==
    IF e.isRequestError /\ e.status = 404
    THEN Failed404
    ELSE IF e.isRequestError /\ e.status = 403
    THEN Failed403
    ELSE IF e.isError
    THEN FailedWith(e.message)
    ELSE FailedFatal

---------------------------------------------------------------------------
(* The state machine of run() *)

Init ==
    /\ pc = "readConfig"
    /\ config = NoConfig
    /\ changes = [absent |-> TRUE, items |-> <<>>]
    /\ minSeverity = "low"
    /\ filteredChanges = <<>>
    /\ vulnerableChanges = <<>>
    /\ invalidLicenseChanges = NoBuckets
    /\ summaryArgs = <<>>
    /\ error = NoError
    /\ unhandled = FALSE
    /\ log = <<>>

\* a throw inside the try block: control goes to catch (line 92)
Throw(e) ==
    /\ pc' = "catch"
    /\ error' = e

\* await readConfig() resolves (line 22)
ReadConfigReturns ==
    /\ pc = "readConfig"
    /\ \E cfg \in Configs : config' = cfg
    /\ pc' = "getRefs"
    /\ log' = Append(log, "readConfig")
    /\ UNCHANGED <<changes, minSeverity, filteredChanges, vulnerableChanges,
                   invalidLicenseChanges, summaryArgs, error, unhandled>>

\* await readConfig() rejects (line 22)
ReadConfigThrows ==
    /\ pc = "readConfig"
    /\ \E e \in Errors : Throw(e)
    /\ log' = Append(log, "readConfig")
    /\ UNCHANGED <<config, changes, minSeverity, filteredChanges,
                   vulnerableChanges, invalidLicenseChanges, summaryArgs,
                   unhandled>>

\* getRefs returns (line 23); compare is called (line 25)
GetRefsReturns ==
    /\ pc = "getRefs"
    /\ pc' = "compare"
    /\ log' = log \o <<"getRefs", "compare">>
    /\ UNCHANGED <<config, changes, minSeverity, filteredChanges,
                   vulnerableChanges, invalidLicenseChanges, summaryArgs,
                   error, unhandled>>

\* getRefs throws (line 23)
GetRefsThrows ==
    /\ pc = "getRefs"
    /\ \E e \in Errors : Throw(e)
    /\ log' = Append(log, "getRefs")
    /\ UNCHANGED <<config, changes, minSeverity, filteredChanges,
                   vulnerableChanges, invalidLicenseChanges, summaryArgs,
                   unhandled>>

\* await dependencyGraph.compare resolves (lines 25-30)
CompareReturns ==
    /\ pc = "compare"
    /\ \E r \in CompareResults : changes' = r
    /\ pc' = "compared"
    /\ UNCHANGED <<config, minSeverity, filteredChanges, vulnerableChanges,
                   invalidLicenseChanges, summaryArgs, error, unhandled, log>>

\* await dependencyGraph.compare rejects (lines 25-30)
CompareThrows ==
    /\ pc = "compare"
    /\ \E e \in Errors : Throw(e)
    /\ UNCHANGED <<config, changes, minSeverity, filteredChanges,
                   vulnerableChanges, invalidLicenseChanges, summaryArgs,
                   unhandled, log>>

\* if (!changes) return (lines 32-35).  Only the absent value is falsy: an
\* empty array is an object, and !changes is false for it.
NoChanges ==
    /\ pc = "compared"
    /\ changes.absent
    /\ pc' = "finally"
    /\ log' = Append(log, "info:No Dependency Changes found. Skipping Dependency Review.")
    /\ UNCHANGED <<config, changes, minSeverity, filteredChanges,
                   vulnerableChanges, invalidLicenseChanges, summaryArgs,
                   error, unhandled>>

\* lines 36-66: thresholds, the filters and the license resolver
Classify ==
    /\ pc = "compared"
    /\ ~changes.absent
    /\ minSeverity' = MinSeverity(config)
    /\ filteredChanges' = FilteredChanges(config, changes.items)
    /\ vulnerableChanges' = VulnerableChanges(config, changes.items)
    /\ invalidLicenseChanges' = InvalidLicenseChanges(config, changes.items)
    /\ log' = log \o <<"filterChangesByScopes", "filterAllowedAdvisories",
                        "filterChangesBySeverity", "getInvalidLicenseChanges">>
    /\ pc' = "report"
    /\ UNCHANGED <<config, changes, summaryArgs, error, unhandled>>

\* lines 68-88: the summary sections and the report blocks
Report ==
    /\ pc = "report"
    /\ summaryArgs' = <<[vulnerableChanges |-> vulnerableChanges,
                         invalidLicenseChanges |-> invalidLicenseChanges]>>
    /\ log' = log \o <<"summary.addSummaryToSummary">>
                  \o VulnerabilityCheck(config, vulnerableChanges)
                  \o LicenseCheck(config, invalidLicenseChanges)
                  \o <<"summary.addScannedDependencies", "group:Dependency Changes">>
    /\ unhandled' = ScannedDependenciesThrows(changes.items)
    /\ pc' = "comment"
    /\ UNCHANGED <<config, changes, minSeverity, filteredChanges,
                   vulnerableChanges, invalidLicenseChanges, error>>

\* line 89 is false
CommentSkipped ==
    /\ pc = "comment"
    /\ ~ShouldComment(config)
    /\ pc' = "finally"
    /\ UNCHANGED <<config, changes, minSeverity, filteredChanges,
                   vulnerableChanges, invalidLicenseChanges, summaryArgs,
                   error, unhandled, log>>

\* commentPr is called (line 90)
CommentCalled ==
    /\ pc = "comment"
    /\ ShouldComment(config)
    /\ pc' = "awaitComment"
    /\ log' = Append(log, "commentPr")
    /\ UNCHANGED <<config, changes, minSeverity, filteredChanges,
                   vulnerableChanges, invalidLicenseChanges, summaryArgs,
                   error, unhandled>>

\* await commentPr resolves (line 90)
CommentReturns ==
    /\ pc = "awaitComment"
    /\ pc' = "finally"
    /\ UNCHANGED <<config, changes, minSeverity, filteredChanges,
                   vulnerableChanges, invalidLicenseChanges, summaryArgs,
                   error, unhandled, log>>

\* await commentPr rejects (line 90)
CommentThrows ==
    /\ pc = "awaitComment"
    /\ \E e \in CommentErrors : Throw(e)
    /\ UNCHANGED <<config, changes, minSeverity, filteredChanges,
                   vulnerableChanges, invalidLicenseChanges, summaryArgs,
                   unhandled, log>>

\* the catch block (lines 92-107)
Catch ==
    /\ pc = "catch"
    /\ log' = Append(log, CatchMessage(error))
    /\ pc' = "finally"
    /\ UNCHANGED <<config, changes, minSeverity, filteredChanges,
                   vulnerableChanges, invalidLicenseChanges, summaryArgs,
                   error, unhandled>>

\* the finally block calls core.summary.write (lines 108-110)
Finally ==
    /\ pc = "finally"
    /\ log' = Append(log, "summary.write")
    /\ pc' = "awaitWrite"
    /\ UNCHANGED <<config, changes, minSeverity, filteredChanges,
                   vulnerableChanges, invalidLicenseChanges, summaryArgs,
                   error, unhandled>>

\* await core.summary.write resolves; run() returns (lines 109-111)
WriteReturns ==
    /\ pc = "awaitWrite"
    /\ pc' = "done"
    /\ UNCHANGED <<config, changes, minSeverity, filteredChanges,
                   vulnerableChanges, invalidLicenseChanges, summaryArgs,
                   error, unhandled, log>>

\* The promise rejected in printScannedDependencies (line 243, not awaited)
\* is reported once run() is suspended.  A runtime that treats unhandled
\* rejections as fatal ends the process here; one that only warns lets
\* run() go on, which is every other action.
UnhandledRejection ==
    /\ pc \in {"awaitComment", "awaitWrite"}
    /\ unhandled
    /\ pc' = "crashed"
    /\ UNCHANGED <<config, changes, minSeverity, filteredChanges,
                   vulnerableChanges, invalidLicenseChanges, summaryArgs,
                   error, unhandled, log>>

Next ==
    \/ ReadConfigReturns
    \/ ReadConfigThrows
    \/ GetRefsReturns
    \/ GetRefsThrows
    \/ CompareReturns
    \/ CompareThrows
    \/ NoChanges
    \/ Classify
    \/ Report
    \/ CommentSkipped
    \/ CommentCalled
    \/ CommentReturns
    \/ CommentThrows
    \/ Catch
    \/ Finally
    \/ WriteReturns
    \/ UnhandledRejection

Spec == Init /\ [][Next]_vars

---------------------------------------------------------------------------
(* Vocabulary of the properties *)

Has(ev) == \E i \in 1..Len(log) : log[i] = ev

Count(ev) == Cardinality({ i \in 1..Len(log) : log[i] = ev })

\* ev was logged before a `later`
Before(ev, later) ==
    \E j \in 1..Len(log) :
        /\ log[j] = later
        /\ \E i \in 1..(j - 1) : log[i] = ev

\* core.setFailed calls of the catch block
CatchFailures ==
    {Failed404, Failed403, FailedFatal} \cup { FailedWith(e.message) : e \in Errors }

\* core.setFailed calls of the two report blocks
CheckFailures == {FailedVulnerable, FailedForbidden, FailedUnresolved}

\* the run is marked failed: core.setFailed was called
MarkedFailed == \E i \in 1..Len(log) : log[i] \in CatchFailures \cup CheckFailures

\* compare resolved to a change set (not to the no-changes signal)
Received == ~changes.absent

\* lines 36-66 have run
Classified == Received /\ pc \notin {"compared"}

\* lines 68-88 have run
Reported == Classified /\ pc # "report"

\* run() has returned
Returned == pc = "done"

\* run() has returned or the process has ended
Ended == pc \in {"done", "crashed"}

SummarySections ==
    {"summary.addSummaryToSummary", "summary.addChangeVulnerabilitiesToSummary",
     "summary.addLicensesToSummary", "summary.addScannedDependencies"}

VulnerabilityCalls ==
    {"summary.addChangeVulnerabilitiesToSummary", "group:Vulnerabilities",
     FailedVulnerable, WarnedVulnerable, "info:did not detect any vulnerable packages"}

LicenseCalls ==
    {"summary.addLicensesToSummary", "group:Licenses", FailedForbidden,
     WarnedForbidden, FailedUnresolved, WarnedUnresolved,
     "info:We could not detect a license"}

FilterCalls ==
    {"filterChangesByScopes", "filterAllowedAdvisories", "filterChangesBySeverity",
     "getInvalidLicenseChanges"}

NoneOf(S) == \A i \in 1..Len(log) : log[i] \notin S

Elements(seq) == { seq[i] : i \in 1..Len(seq) }

---------------------------------------------------------------------------
(* C1 *)

\* C1 (as claimed, its "in particular" clause): in a run that received a
\* change set and returned without an exception, with the license check
\* enabled, a non-empty forbidden bucket marks the run failed whatever the
\* value of fail_on_severity.
C1_ForbiddenAlwaysFails ==
    ( /\ Returned
      /\ Received
      /\ error = NoError
      /\ config.license_check
      /\ invalidLicenseChanges.forbidden # <<>> )
    => MarkedFailed

---------------------------------------------------------------------------
(* C2 *)

\* C2: no removed Change is an element of vulnerableChanges; every element
\* of vulnerableChanges has change_type added and a non-empty vulnerability
\* list.
C2_OnlyAddedVulnerable ==
    \A i \in 1..Len(vulnerableChanges) :
        /\ vulnerableChanges[i].change_type # "removed"
        /\ vulnerableChanges[i].change_type = "added"
        /\ Len(vulnerableChanges[i].vulnerabilities) > 0

\* a removed Change passed the scope, allowlist and severity filters and
\* was left out of vulnerableChanges
C2_Witness ==
    /\ Classified
    /\ \E c \in Elements(filterChangesBySeverity(minSeverity, filteredChanges)) :
           c.change_type = "removed"
    /\ vulnerableChanges # <<>>

---------------------------------------------------------------------------
(* C3 *)

\* C3: with fail_on_severity none the severity filter runs at threshold
\* low, vulnerableChanges is what threshold low gives on the same input,
\* and the vulnerability check never calls core.setFailed (a non-empty
\* vulnerableChanges gives a warning); otherwise the threshold is the
\* configured severity.
C3_NoneFiltersAtLowAndWarns ==
    Classified =>
        /\ config.fail_on_severity = "none" =>
              /\ minSeverity = "low"
              /\ vulnerableChanges =
                    SelectSeq(filterChangesBySeverity("low", filteredChanges),
                              AddedWithVulnerabilities)
              /\ vulnerableChanges =
                    VulnerableChanges([config EXCEPT !.fail_on_severity = "low"],
                                      changes.items)
              /\ ~Has(FailedVulnerable)
              /\ (Reported /\ config.vulnerability_check /\ vulnerableChanges # <<>>)
                    => Has(WarnedVulnerable)
        /\ config.fail_on_severity # "none" =>
              /\ minSeverity = config.fail_on_severity
              /\ vulnerableChanges =
                    SelectSeq(filterChangesBySeverity(config.fail_on_severity,
                                                      filteredChanges),
                              AddedWithVulnerabilities)

\* fail_on_severity is none, vulnerable changes were found and reported
C3_Witness ==
    /\ Returned
    /\ Received
    /\ config.fail_on_severity = "none"
    /\ config.vulnerability_check
    /\ vulnerableChanges # <<>>
    /\ Has(WarnedVulnerable)
    /\ ~MarkedFailed

---------------------------------------------------------------------------
(* C4 *)

\* C4 (as claimed): when compare resolves to the no-changes signal or to
\* an empty sequence, no filter and no license resolution run, no summary
\* section is added, no comment is posted and the run is not marked failed.
C4_AbsentAndEmptyShortCircuit ==
    ( /\ Returned
      /\ error = NoError
      /\ (changes.absent \/ changes.items = <<>>) )
    => /\ NoneOf(FilterCalls)
       /\ NoneOf(SummarySections)
       /\ ~Has("commentPr")
       /\ ~MarkedFailed

---------------------------------------------------------------------------
(* C5 *)

\* C5: in every run that received a change set, once lines 68-88 have run
\* summary.addSummaryToSummary was handed the vulnerable changes and the
\* license classification of that change set, whatever vulnerability_check
\* and license_check are; a disabled check makes none of its calls (no
\* detail section, no core.setFailed, no core.warning).
C5_BothComputedDisabledSilent ==
    Reported =>
        /\ Count("summary.addSummaryToSummary") = 1
        /\ summaryArgs =
              <<[vulnerableChanges |-> VulnerableChanges(config, changes.items),
                 invalidLicenseChanges |-> InvalidLicenseChanges(config, changes.items)]>>
        /\ ~config.vulnerability_check => NoneOf(VulnerabilityCalls)
        /\ ~config.license_check => NoneOf(LicenseCalls)

\* both checks disabled, with vulnerable changes and forbidden licenses at
\* a failing threshold: handed to the summary, not acted on
C5_Witness ==
    /\ Returned
    /\ Received
    /\ ~config.vulnerability_check
    /\ ~config.license_check
    /\ config.fail_on_severity # "none"
    /\ vulnerableChanges # <<>>
    /\ invalidLicenseChanges.forbidden # <<>>
    /\ Len(summaryArgs) = 1
    /\ ~MarkedFailed

---------------------------------------------------------------------------
(* C6 *)

\* C6 (as claimed): when the change set holds a Change whose change_type
\* is neither added nor removed, the run ends marked failed.
C6_UnexpectedChangeTypeFailsRun ==
    ( /\ Ended
      /\ Received
      /\ \E c \in Elements(changes.items) : UnexpectedChangeType(c) )
    => MarkedFailed

---------------------------------------------------------------------------
(* C7 *)

\* C7: with fail_on_scopes non-empty, a Change whose scope is not in
\* fail_on_scopes is in neither vulnerableChanges nor a license bucket;
\* the license resolver is handed the scope-and-allowlist-filtered
\* sequence (filteredChanges), not the severity-filtered one.
C7_ScopeFilterFirst ==
    Classified =>
        /\ filteredChanges =
              filterAllowedAdvisories(config.allow_ghsas,
                  filterChangesByScopes(config.fail_on_scopes, changes.items))
        /\ invalidLicenseChanges =
              getInvalidLicenseChanges(filteredChanges,
                                       [allow |-> config.allow_licenses,
                                        deny |-> config.deny_licenses])
        /\ config.fail_on_scopes # {} =>
              \A c \in Elements(vulnerableChanges)
                       \cup Elements(invalidLicenseChanges.forbidden)
                       \cup Elements(invalidLicenseChanges.unresolved)
                       \cup Elements(invalidLicenseChanges.unlicensed) :
                  c.scope \in config.fail_on_scopes

\* an out-of-scope Change with a denied license and a vulnerability is
\* left out of every output, while an in-scope Change without any
\* vulnerability is in a license bucket
C7_Witness ==
    /\ Classified
    /\ config.fail_on_scopes = {"runtime"}
    /\ config.deny_licenses = {"GPL-3.0"}
    /\ \E c \in Elements(changes.items) :
           /\ c.scope = "development"
           /\ c.license = "GPL-3.0"
           /\ c.vulnerabilities # <<>>
    /\ invalidLicenseChanges.forbidden = <<>>
    /\ vulnerableChanges = <<>>
    /\ \E c \in Elements(invalidLicenseChanges.unresolved) : c.vulnerabilities = <<>>

---------------------------------------------------------------------------
(* C8 *)

\* C8: the vulnerable-changes pipeline applied, with the same policy, to
\* its own output gives that output: same elements, same order.
C8_PipelineIdempotent ==
    Classified => VulnerableChanges(config, vulnerableChanges) = vulnerableChanges

\* the pipeline dropped a Change, stripped an allowlisted vulnerability of
\* another and kept that one
C8_Witness ==
    /\ Classified
    /\ vulnerableChanges # <<>>
    /\ Len(vulnerableChanges) < Len(changes.items)
    /\ Elements(vulnerableChanges) \cap Elements(changes.items) = {}

---------------------------------------------------------------------------
(* C9 *)

\* C9 (as claimed): commentPr is invoked only after the overview, the
\* vulnerability, the license and the scanned-dependency summary sections
\* have all been added.
C9_CommentAfterAllFourSections ==
    Has("commentPr") =>
        \A section \in SummarySections : Before(section, "commentPr")

\* compare, commentPr and the calls that add a summary section
IsCompareSectionOrComment(ev) == ev \in SummarySections \cup {"compare", "commentPr"}

\* C9 (amended): compare and commentPr are each called at most once;
\* commentPr is called only if comment_summary_in_pr is set, only after
\* compare returned a change set, after the overview and scanned-dependency
\* sections were added and after the vulnerability and license sections of
\* the checks that are enabled; no section is added after it; it is never
\* called in a run where readConfig, getRefs or compare failed.
C9_CommentOnceAfterSections ==
    LET calls == SelectSeq(log, IsCompareSectionOrComment)
    IN  /\ Count("compare") <= 1
        /\ Count("commentPr") <= 1
        /\ Has("commentPr") =>
              /\ config.comment_summary_in_pr
              /\ Received
              /\ calls =
                    <<"compare", "summary.addSummaryToSummary">> \o
                    (IF config.vulnerability_check
                     THEN <<"summary.addChangeVulnerabilitiesToSummary">> ELSE <<>>) \o
                    (IF config.license_check
                     THEN <<"summary.addLicensesToSummary">> ELSE <<>>) \o
                    <<"summary.addScannedDependencies", "commentPr">>
        /\ ~Received => ~Has("commentPr")
        /\ (Ended /\ Received /\ ~config.comment_summary_in_pr) => ~Has("commentPr")

\* the comment was posted in a run whose vulnerability check is disabled
C9_Witness ==
    /\ Returned
    /\ Has("commentPr")
    /\ ~config.vulnerability_check
    /\ config.license_check
    /\ ~Has("summary.addChangeVulnerabilitiesToSummary")

---------------------------------------------------------------------------
(* C10 *)

\* the core.setFailed call the catch block makes for a caught value
ExpectedCatchFailure(e) ==
    CASE e.isRequestError /\ e.status = 404 -> Failed404
      [] e.isRequestError /\ e.status = 403 -> Failed403
      [] ~(e.isRequestError /\ e.status \in {403, 404}) /\ e.isError ->
            FailedWith(e.message)
      [] OTHER -> FailedFatal

\* C10: a caught exception marks the run failed exactly once in the catch
\* block, with the message its kind selects (RequestError 404, RequestError
\* 403, another Error's own message, 'Unexpected fatal error'); without an
\* exception the catch block makes no call; core.summary.write is called
\* at most once, and exactly once, as the last call, when run() returns:
\* on normal completion, on the no-changes return and on the error path;
\* until run() returns or the process ends, a next step is always possible.
C10_CatchOnceWriteOnce ==
    /\ ~Ended => ENABLED Next
    /\ Count("summary.write") <= 1
    /\ Returned => Count("summary.write") = 1 /\ log[Len(log)] = "summary.write"
    /\ pc \in {"readConfig", "getRefs", "compare", "compared", "report",
                "comment", "awaitComment", "catch"} => ~Has("summary.write")
    /\ (error # NoError /\ pc # "catch") =>
          /\ Cardinality({ i \in 1..Len(log) : log[i] \in CatchFailures }) = 1
          /\ Has(ExpectedCatchFailure(error))
    /\ (error = NoError \/ pc = "catch") => NoneOf(CatchFailures)

\* commentPr threw an Error that is no RequestError but carries status 404,
\* after the vulnerability check had already marked the run failed
C10_Witness ==
    /\ Returned
    /\ error.isError /\ ~error.isRequestError /\ error.status = 404
    /\ Has("commentPr")
    /\ Has(FailedVulnerable)
    /\ Has(FailedWith(error.message))
    /\ Count("summary.write") = 1

===========================================================================
